---------------------------- MODULE Spec2Model ----------------------------
(***************************************************************************)
(* A model of solana-quic-client: the leader tracker (slot clock, schedule *)
(* cache, the websocket listener, the periodic refresh), the leader window *)
(* (get_leaders) and the attempt loop of main with send_transaction and    *)
(* check_confirm_transaction.                                              *)
(***************************************************************************)
EXTENDS Integers, Sequences, FiniteSets, TLC

(***************************************************************************)
(* Bounds of the model.                                                    *)
(***************************************************************************)
\* The authoritative source's current slot runs over 0..MaxSlot.
MaxSlot == 1

\* Stand-in for the 1000 slots asked of get_slot_leaders (leader_tracker.rs:124).
Lookahead == 2

\* The window specifications draw num_leaders from 0..MaxLeaders,
\* leader_offset from 0..MaxOffset.
MaxLeaders == 2

MaxOffset == 1

\* config.retry is drawn from 0..MaxRetry, the blockhash runs over 0..MaxHash.
MaxRetry == 2

MaxHash == 1

\* The specification of get_leaders alone draws the cache keys from 0..ScanMaxKey.
ScanMaxKey == 4

\* The specification of get_leaders on a rotating schedule draws num_leaders
\* from 1..MaxWindow.
MaxWindow == 3

\* const NUM_LEADERS_PER_SLOT: usize = 4
NUM_LEADERS_PER_SLOT == 4

None == "None"

\* A local that holds no value yet; <<v>> once it holds v.
Unset == <<>>

VARIABLES
    chainSlot,          \* the authoritative source's current slot (get_slot)
    dirVer,             \* which cluster directory get_cluster_nodes returns now
    cur_slot,           \* LeaderTrackerImpl.cur_slot (AtomicU64)
    cur_leaders,        \* LeaderTrackerImpl.cur_leaders (DashMap<Slot, RpcContactInfo>)
    wsPc,               \* position of the task spawned by start_websocket_listener
    pollPc,             \* position of each caller inside poll_slot_leaders_once
    next_slot,          \* poll_slot_leaders_once: next_slot, per caller
    cluster_node_map,   \* poll_slot_leaders_once: the directory snapshot, per caller
    idx,                \* poll_slot_leaders_once: the loop index i, per caller
    clean_slot,         \* clean_up_slot_leaders: cur_slot as loaded, per caller
    scan_left,          \* clean_up_slot_leaders: keys the iterator has not visited yet
    slots_to_remove,    \* clean_up_slot_leaders: slots_to_remove, per caller
    late_inserts,       \* history: keys below clean_slot the other caller inserted since this purge began
    mainPc,             \* position of main
    num_leaders,        \* LeaderTrackerImpl.num_leaders
    leader_offset,      \* LeaderTrackerImpl.leader_offset
    start_slot,         \* get_leaders: start_slot
    end_slot,           \* get_leaders: end_slot
    slot,               \* get_leaders: the loop variable
    gl_leaders,         \* get_leaders: the IndexMap `leaders`
    leaders,            \* main: the Vec get_leaders returned
    lookups,            \* history: cache lookups made by the running get_leaders call
    retry,              \* config.retry
    attempts,           \* main: attempts
    keysValid,          \* whether the configured sender and receiver keys can be read
    chainHash,          \* the authoritative source's latest blockhash
    connected,          \* the address of the QuicManager of this attempt
    sendAttempt,        \* send_transaction: attempt
    blockhash,          \* send_transaction: blockhash
    transaction,        \* send_transaction: transaction
    signature,          \* main: the signature send_transaction returned
    polls,              \* check_confirm_transaction: status polls made by the running call
    sleeps,             \* history: sleeps of the running check_confirm_transaction call
    not_found,          \* history: polls of the running call that returned no status
    query_errors,       \* history: status queries of the running call that failed
    fetches,            \* history: blockhash fetches of the running send_transaction call
    sends,              \* history: transport sends of the running send_transaction call
    submissions,        \* history: calls of send_transaction made by main
    wire,               \* history: the transactions handed to the transport, in order
    error_log,          \* main: the last error line logged
    success_line,       \* main: whether the confirmation reference was logged
    failure_line        \* main: whether the final notice of exhausted attempts was logged

trackerVars == <<chainSlot, dirVer, cur_slot, cur_leaders, wsPc, pollPc, next_slot,
                 cluster_node_map, idx, clean_slot, scan_left, slots_to_remove,
                 late_inserts>>

glVars == <<num_leaders, leader_offset, start_slot, end_slot, slot, gl_leaders, leaders,
            lookups>>

\* What main owns besides its position.
orchVars == <<retry, attempts, keysValid, chainHash, connected, sendAttempt, blockhash,
              transaction, signature, polls, sleeps, not_found, query_errors, fetches, sends,
              submissions, wire, error_log, success_line, failure_line>>

mainLocals == <<glVars, orchVars>>

vars == <<trackerVars, mainPc, mainLocals>>

(***************************************************************************)
(* The authoritative source: leader schedule and cluster directory.        *)
(***************************************************************************)
Slots == 0..MaxSlot

\* The two callers of poll_slot_leaders_once: the loop task and main.
Callers == {"loop", "main"}

Other(c) == IF c = "loop" THEN "main" ELSE "loop"

\* The leader identity of every slot (get_slot_leaders answers from it).
LeaderAt(s) == CASE s % 4 = 0 -> "A"
                 [] s % 4 = 1 -> "A"
                 [] s % 4 = 2 -> "B"
                 [] OTHER     -> "C"

\* get_slot_leaders(start, limit): the identities of slots start, start+1, ...
SlotLeaders(start) ==
    [i \in 1..Lookahead |-> LeaderAt(start + i - 1)]

\* An RpcContactInfo: the fields the program reads.
Contact(pk, addr) == [pubkey |-> pk, tpu_quic |-> addr]

\* get_cluster_nodes: the directory in its two versions. Leader A changes its
\* address between the versions; B has no QUIC address and is no longer listed
\* in the second version.
ClusterNodes(ver) ==
    IF ver = 1 THEN {Contact("A", "addr1"), Contact("B", None), Contact("C", "addr3")}
               ELSE {Contact("A", "addr2"), Contact("C", "addr3")}

\* HashMap<pubkey, node> collected from the directory.
NodeMap(nodes) ==
    [pk \in {n.pubkey : n \in nodes} |-> CHOOSE n \in nodes : n.pubkey = pk]

(***************************************************************************)
(* DashMap operations.                                                     *)
(***************************************************************************)
MapInsert(m, k, v) == [x \in DOMAIN m \cup {k} |-> IF x = k THEN v ELSE m[x]]

MapRemove(m, k) == [x \in DOMAIN m \ {k} |-> m[x]]

EmptyMap == [x \in {} |-> None]

(***************************************************************************)
(* Initial state: main is about to call LeaderTrackerImpl::new.            *)
(***************************************************************************)
TrackerInit ==
    /\ chainSlot = 0
    /\ dirVer = 1
    /\ cur_slot = 0
    /\ cur_leaders = EmptyMap
    /\ wsPc = "unspawned"
    /\ pollPc = [c \in Callers |-> "idle"]
    /\ next_slot = [c \in Callers |-> 0]
    /\ cluster_node_map = [c \in Callers |-> 0]
    /\ idx = [c \in Callers |-> 0]
    /\ clean_slot = [c \in Callers |-> 0]
    /\ scan_left = [c \in Callers |-> {}]
    /\ slots_to_remove = [c \in Callers |-> {}]
    /\ late_inserts = [c \in Callers |-> {}]

\* get_leaders is not running.
WindowIdle ==
    /\ start_slot = 0
    /\ end_slot = 0
    /\ slot = 0
    /\ gl_leaders = <<>>
    /\ leaders = <<>>
    /\ lookups = 0

\* No attempt has been made.
OrchIdle ==
    /\ attempts = 0
    /\ chainHash = 0
    /\ connected = None
    /\ sendAttempt = 0
    /\ blockhash = Unset
    /\ transaction = Unset
    /\ signature = Unset
    /\ polls = 0
    /\ sleeps = 0
    /\ not_found = 0
    /\ query_errors = 0
    /\ fetches = 0
    /\ sends = 0
    /\ submissions = 0
    /\ wire = <<>>
    /\ error_log = None
    /\ success_line = FALSE
    /\ failure_line = FALSE

\* LeaderTrackerImpl::new(rpc_client.clone(), 4, 0, ..) of main.
Init ==
    /\ TrackerInit
    /\ mainPc = "new"
    /\ num_leaders = 4
    /\ leader_offset = 0
    /\ WindowIdle
    /\ retry = 1
    /\ keysValid = TRUE
    /\ OrchIdle

\* The process is running: a panic of main aborts every task.
Alive == mainPc # "panicked"

(***************************************************************************)
(* The environment: the chain advances, the directory changes.             *)
(***************************************************************************)
ChainTick ==
    /\ Alive
    /\ chainSlot < MaxSlot
    /\ chainSlot' = chainSlot + 1
    /\ UNCHANGED <<dirVer, cur_slot, cur_leaders, wsPc, pollPc, next_slot,
                   cluster_node_map, idx, clean_slot, scan_left, slots_to_remove,
                   late_inserts, mainPc, mainLocals>>

DirChange ==
    /\ Alive
    /\ dirVer = 1
    /\ dirVer' = 2
    /\ UNCHANGED <<chainSlot, cur_slot, cur_leaders, wsPc, pollPc, next_slot,
                   cluster_node_map, idx, clean_slot, scan_left, slots_to_remove,
                   late_inserts, mainPc, mainLocals>>

(***************************************************************************)
(* LeaderTrackerImpl::new: the initial slot, then the two spawned tasks.   *)
(***************************************************************************)
New ==
    /\ mainPc = "new"
    /\ \E ok \in BOOLEAN :
          cur_slot' = IF ok THEN chainSlot ELSE 0
    /\ wsPc' = "connect"
    /\ pollPc' = [pollPc EXCEPT !["loop"] = "start", !["main"] = "start"]
    /\ mainPc' = "startup_poll"
    /\ UNCHANGED <<chainSlot, dirVer, cur_leaders, next_slot, cluster_node_map, idx,
                   clean_slot, scan_left, slots_to_remove, late_inserts, mainLocals>>

(***************************************************************************)
(* start_websocket_listener: the spawned task.                             *)
(***************************************************************************)
WsUnchanged == UNCHANGED <<chainSlot, dirVer, cur_leaders, pollPc, next_slot,
                           cluster_node_map, idx, clean_slot, scan_left,
                           slots_to_remove, late_inserts, mainPc, mainLocals>>

WsConnect ==
    /\ Alive
    /\ wsPc = "connect"
    /\ \E ok \in BOOLEAN : wsPc' = IF ok THEN "subscribe" ELSE "ended"
    /\ UNCHANGED cur_slot
    /\ WsUnchanged

WsSubscribe ==
    /\ Alive
    /\ wsPc = "subscribe"
    /\ \E ok \in BOOLEAN : wsPc' = IF ok THEN "listen" ELSE "ended"
    /\ UNCHANGED cur_slot
    /\ WsUnchanged

\* The value the listener stores for a slot update.
StoredSlot(cur, new_slot) == new_slot

\* One message of the feed carrying a slot: any slot the chain has reached,
\* in any order.
WsSlotUpdate ==
    /\ Alive
    /\ wsPc = "listen"
    /\ \E new_slot \in 0..chainSlot : cur_slot' = StoredSlot(cur_slot, new_slot)
    /\ UNCHANGED wsPc
    /\ WsUnchanged

\* The stream ends or yields an error: the loop and the task end.
WsEnd ==
    /\ Alive
    /\ wsPc = "listen"
    /\ wsPc' = "ended"
    /\ UNCHANGED cur_slot
    /\ WsUnchanged

(***************************************************************************)
(* poll_slot_leaders_once, for each of its two callers, step by step: the  *)
(* clock load, the two queries, one insert per leader, then                *)
(* clean_up_slot_leaders (the clock load, the iteration, one remove per    *)
(* collected key).                                                         *)
(***************************************************************************)
PollUnchanged == UNCHANGED <<chainSlot, dirVer, cur_slot, wsPc, mainPc, mainLocals>>

\* let next_slot = self.cur_slot.load(..)
PollLoad(c) ==
    /\ Alive
    /\ pollPc[c] = "start"
    /\ next_slot' = [next_slot EXCEPT ![c] = cur_slot]
    /\ pollPc' = [pollPc EXCEPT ![c] = "get_slot_leaders"]
    /\ UNCHANGED <<cur_leaders, cluster_node_map, idx, clean_slot, scan_left,
                   slots_to_remove, late_inserts>>
    /\ PollUnchanged

\* Mutant of AfterQueryError: the failing call purges the stale entries.
PurgeOnQueryError(c) ==
    /\ pollPc' = [pollPc EXCEPT ![c] = "err"]
    /\ cur_leaders' = [x \in {y \in DOMAIN cur_leaders : y >= cur_slot} |-> cur_leaders[x]]
    /\ UNCHANGED <<next_slot, cluster_node_map, idx, clean_slot, scan_left,
                   slots_to_remove, late_inserts>>

\* What a failed query leaves behind: the `?` returns Err before any insert or purge.
AfterQueryError(c) ==
    /\ pollPc' = [pollPc EXCEPT ![c] = "err"]
    /\ UNCHANGED <<cur_leaders, next_slot, cluster_node_map, idx, clean_slot,
                   scan_left, slots_to_remove, late_inserts>>

\* rpc_client.get_slot_leaders(next_slot, 1000).await ... ?
PollGetSlotLeaders(c) ==
    /\ Alive
    /\ pollPc[c] = "get_slot_leaders"
    /\ \/ /\ pollPc' = [pollPc EXCEPT ![c] = "get_cluster_nodes"]
          /\ UNCHANGED <<cur_leaders, next_slot, cluster_node_map, idx, clean_slot,
                         scan_left, slots_to_remove, late_inserts>>
       \/ AfterQueryError(c)
    /\ PollUnchanged

\* rpc_client.get_cluster_nodes().await ... ?
PollGetClusterNodes(c) ==
    /\ Alive
    /\ pollPc[c] = "get_cluster_nodes"
    /\ \/ /\ pollPc' = [pollPc EXCEPT ![c] = "insert"]
          /\ cluster_node_map' = [cluster_node_map EXCEPT ![c] = dirVer]
          /\ idx' = [idx EXCEPT ![c] = 0]
          /\ UNCHANGED <<cur_leaders, next_slot, clean_slot, scan_left,
                         slots_to_remove, late_inserts>>
       \/ AfterQueryError(c)
    /\ PollUnchanged

\* Mutant of InsertKey: the keys are one slot late.
InsertKeyShifted(start, i) == start + i + 1

\* The key the loop writes at index i.
InsertKey(start, i) == start + i

\* Whether the purge of the caller c is under way or just over.
Purging(c) == pollPc[c] \in {"clean_scan", "clean_remove", "ok"}

\* One turn of `for (i, leader) in slot_leaders.iter().enumerate()`.
PollInsert(c) ==
    /\ Alive
    /\ pollPc[c] = "insert"
    /\ idx[c] < Len(SlotLeaders(next_slot[c]))
    /\ LET leader == SlotLeaders(next_slot[c])[idx[c] + 1]
           nodes  == NodeMap(ClusterNodes(cluster_node_map[c]))
           key    == InsertKey(next_slot[c], idx[c])
       IN  IF leader \in DOMAIN nodes
           THEN /\ cur_leaders' = MapInsert(cur_leaders, key, nodes[leader])
                /\ late_inserts' =
                     [late_inserts EXCEPT ![Other(c)] =
                        IF Purging(Other(c)) /\ key < clean_slot[Other(c)]
                        THEN @ \cup {key} ELSE @]
           ELSE UNCHANGED <<cur_leaders, late_inserts>>
    /\ idx' = [idx EXCEPT ![c] = @ + 1]
    /\ UNCHANGED <<pollPc, next_slot, cluster_node_map, clean_slot, scan_left,
                   slots_to_remove>>
    /\ PollUnchanged

\* Mutant of Stale: the filter spares the slot just below the clock.
StaleOffByOne(key, cur) == key + 1 < cur

\* The filter of clean_up_slot_leaders: *leader.key() < cur_slot.
Stale(key, cur) == key < cur

\* The loop is over: clean_up_slot_leaders loads the clock and starts to iterate.
CleanLoad(c) ==
    /\ Alive
    /\ pollPc[c] = "insert"
    /\ idx[c] = Len(SlotLeaders(next_slot[c]))
    /\ clean_slot' = [clean_slot EXCEPT ![c] = cur_slot]
    /\ scan_left' = [scan_left EXCEPT ![c] = {k \in 0..cur_slot : Stale(k, cur_slot)}]
    /\ slots_to_remove' = [slots_to_remove EXCEPT ![c] = {}]
    /\ late_inserts' = [late_inserts EXCEPT ![c] = {}]
    /\ pollPc' = [pollPc EXCEPT ![c] = "clean_scan"]
    /\ cluster_node_map' = [cluster_node_map EXCEPT ![c] = 0]
    /\ idx' = [idx EXCEPT ![c] = 0]
    /\ UNCHANGED <<cur_leaders, next_slot>>
    /\ PollUnchanged

\* The iterator of the DashMap reaches one key (in the map's own order): the
\* key is collected if it is in the map at that moment. Keys the filter
\* rejects are left out of scan_left from the start (CleanLoad).
CleanScan(c) ==
    /\ Alive
    /\ pollPc[c] = "clean_scan"
    /\ \E k \in scan_left[c] :
          /\ scan_left' = [scan_left EXCEPT ![c] = @ \ {k}]
          /\ slots_to_remove' =
               [slots_to_remove EXCEPT ![c] =
                  IF k \in DOMAIN cur_leaders THEN @ \cup {k} ELSE @]
    /\ UNCHANGED <<cur_leaders, pollPc, next_slot, cluster_node_map, idx, clean_slot,
                   late_inserts>>
    /\ PollUnchanged

\* .collect() is done: the removals start.
CleanCollected(c) ==
    /\ Alive
    /\ pollPc[c] = "clean_scan"
    /\ scan_left[c] = {}
    /\ pollPc' = [pollPc EXCEPT ![c] = "clean_remove"]
    /\ UNCHANGED <<cur_leaders, next_slot, cluster_node_map, idx, clean_slot,
                   scan_left, slots_to_remove, late_inserts>>
    /\ PollUnchanged

\* self.cur_leaders.remove(&slot) for one collected slot.
CleanRemove(c) ==
    /\ Alive
    /\ pollPc[c] = "clean_remove"
    /\ \E k \in slots_to_remove[c] :
          /\ cur_leaders' = MapRemove(cur_leaders, k)
          /\ slots_to_remove' = [slots_to_remove EXCEPT ![c] = @ \ {k}]
    /\ UNCHANGED <<pollPc, next_slot, cluster_node_map, idx, clean_slot, scan_left,
                   late_inserts>>
    /\ PollUnchanged

\* Ok(()) of poll_slot_leaders_once.
PollReturnOk(c) ==
    /\ Alive
    /\ pollPc[c] = "clean_remove"
    /\ slots_to_remove[c] = {}
    /\ pollPc' = [pollPc EXCEPT ![c] = "ok"]
    /\ UNCHANGED <<cur_leaders, next_slot, cluster_node_map, idx, clean_slot,
                   scan_left, slots_to_remove, late_inserts>>
    /\ PollUnchanged

\* The locals of a call that has returned.
PollLocalsDropped(c) ==
    /\ next_slot' = [next_slot EXCEPT ![c] = 0]
    /\ clean_slot' = [clean_slot EXCEPT ![c] = 0]
    /\ late_inserts' = [late_inserts EXCEPT ![c] = {}]
    /\ UNCHANGED <<cluster_node_map, idx, scan_left, slots_to_remove>>

(***************************************************************************)
(* poll_slot_leaders: the loop of the spawned task.                        *)
(***************************************************************************)
\* Err: the error is logged, sleep 1 s, continue.
LoopError ==
    /\ Alive
    /\ pollPc["loop"] = "err"
    /\ pollPc' = [pollPc EXCEPT !["loop"] = "start"]
    /\ PollLocalsDropped("loop")
    /\ UNCHANGED <<chainSlot, dirVer, cur_slot, cur_leaders, wsPc, mainPc, mainLocals>>

\* Ok: sleep 60 s, next turn.
LoopSleep ==
    /\ Alive
    /\ pollPc["loop"] = "ok"
    /\ pollPc' = [pollPc EXCEPT !["loop"] = "start"]
    /\ PollLocalsDropped("loop")
    /\ UNCHANGED <<chainSlot, dirVer, cur_slot, cur_leaders, wsPc, mainPc, mainLocals>>

(***************************************************************************)
(* main: tracker.poll_slot_leaders_once().await.unwrap()                   *)
(***************************************************************************)
StartupUnwrap ==
    /\ mainPc = "startup_poll"
    /\ pollPc["main"] \in {"ok", "err"}
    /\ mainPc' = IF pollPc["main"] = "ok" THEN "while" ELSE "panicked"
    /\ pollPc' = [pollPc EXCEPT !["main"] = "idle"]
    /\ PollLocalsDropped("main")
    /\ UNCHANGED <<chainSlot, dirVer, cur_slot, cur_leaders, wsPc, mainLocals>>

(***************************************************************************)
(* get_leaders, step by step: the clock load, then one cache lookup per    *)
(* slot of start_slot..end_slot, then the collected values.                *)
(***************************************************************************)
\* Mutant of IndexInsert: a Vec push, no look at the keys already there.
IndexPush(m, pk, v, s) ==
    Append(m, [key |-> pk, value |-> v, first |-> s, at |-> s])

\* IndexMap::insert: a new key is appended; a key already in the map keeps
\* its place and has its value replaced. Every entry also records, as
\* history, the slot its key was first found at (first) and the slot its
\* value comes from (at).
IndexInsert(m, pk, v, s) ==
    IF \E i \in 1..Len(m) : m[i].key = pk
    THEN [i \in 1..Len(m) |->
            IF m[i].key = pk THEN [m[i] EXCEPT !.value = v, !.at = s] ELSE m[i]]
    ELSE Append(m, [key |-> pk, value |-> v, first |-> s, at |-> s])

\* Mutant of ScanSlot: the lookup is made one slot ahead.
ScanSlotAhead(m, cache, s) ==
    IF s + 1 \in DOMAIN cache THEN IndexInsert(m, cache[s + 1].pubkey, cache[s + 1], s + 1)
                             ELSE m

\* One turn of `for slot in start_slot..end_slot` on the IndexMap m.
ScanSlot(m, cache, s) ==
    IF s \in DOMAIN cache THEN IndexInsert(m, cache[s].pubkey, cache[s], s) ELSE m

\* leaders.values().cloned().collect()
Values(m) == [i \in 1..Len(m) |-> m[i].value]

GlUnchanged == UNCHANGED <<trackerVars, num_leaders, leader_offset, orchVars>>

\* Mutant of WhileCondition: one turn more than the budget.
WhileConditionInclusive(a, r) == a <= r

\* The condition of `while attempts < config.retry`.
WhileCondition(a, r) == a < r

\* main: the loop is entered, then the first two lines of get_leaders.
WhileEnter ==
    /\ mainPc = "while"
    /\ WhileCondition(attempts, retry)
    /\ start_slot' = cur_slot + leader_offset
    /\ end_slot' = cur_slot + leader_offset + num_leaders * NUM_LEADERS_PER_SLOT
    /\ slot' = cur_slot + leader_offset
    /\ gl_leaders' = <<>>
    /\ leaders' = <<>>
    /\ lookups' = 0
    /\ mainPc' = "get_leaders"
    /\ GlUnchanged

\* One turn of the loop: the lookup, the insert, the test for the break
\* (a break leaves the range: slot moves to end_slot).
GetLeadersScan ==
    /\ mainPc = "get_leaders"
    /\ slot < end_slot
    /\ LET m == ScanSlot(gl_leaders, cur_leaders, slot)
       IN  /\ gl_leaders' = m
           /\ slot' = IF Len(m) >= num_leaders THEN end_slot ELSE slot + 1
    /\ lookups' = lookups + 1
    /\ UNCHANGED <<start_slot, end_slot, leaders, mainPc>>
    /\ GlUnchanged

\* The loop is over (the range is exhausted or the break was taken):
\* get_leaders returns the values to main.
GetLeadersReturn ==
    /\ mainPc = "get_leaders"
    /\ slot >= end_slot
    /\ leaders' = Values(gl_leaders)
    /\ mainPc' = "select"
    /\ UNCHANGED <<start_slot, end_slot, slot, gl_leaders, lookups>>
    /\ GlUnchanged

(***************************************************************************)
(* main: the attempt loop, with send_transaction and                       *)
(* check_confirm_transaction step by step.                                 *)
(***************************************************************************)
\* Mutant of SEND_MAX_ATTEMPTS: send_transaction has a second round.
TwoSendRounds == 1 + 1

\* let max_attempts = 1 of send_transaction.
SEND_MAX_ATTEMPTS == 1

\* Mutant of CONFIRM_MAX_ATTEMPTS: one poll more.
ElevenPolls == 10 + 1

\* let max_attempts = 10 of check_confirm_transaction.
CONFIRM_MAX_ATTEMPTS == 10

\* Mutant of Sign: the signature does not depend on the message.
SignBlind(hash) == <<"sig", 0>>

\* The signature of the transfer signed over a blockhash: sender, receiver
\* and amount are fixed by the configuration and ed25519 is deterministic,
\* so the signature is a function of the blockhash.
Sign(hash) == <<"sig", hash>>

\* Mutant of CreateTransaction: the transaction is built on a fixed blockhash.
CreateTransactionOnFixedHash(hash) ==
    [recent_blockhash |-> 0, signatures |-> <<Sign(0)>>]

\* config.create_transaction(blockhash): Transaction::new_signed_with_payer
\* with the one signer.
CreateTransaction(hash) ==
    [recent_blockhash |-> hash, signatures |-> <<Sign(hash)>>]

\* The authoritative source produces a new blockhash.
HashTick ==
    /\ Alive
    /\ chainHash < MaxHash
    /\ chainHash' = chainHash + 1
    /\ UNCHANGED <<trackerVars, mainPc, glVars, retry, attempts, keysValid, connected,
                   sendAttempt, blockhash, transaction, signature, polls, sleeps,
                   not_found, query_errors, fetches, sends, submissions, wire, error_log,
                   success_line, failure_line>>

\* What the steps of an attempt leave alone.
AttemptUnchanged == UNCHANGED <<trackerVars, glVars, retry, keysValid, chainHash>>

\* Mutant of Chosen: the first entry of the window.
ChosenFirst(window) == window[1]

\* leaders.last(), on a window that is not empty.
Chosen(window) == window[Len(window)]

\* `if let Some(leader) = leaders.last()` and `if let Some(tpu_quic) =
\* &leader.tpu_quic`, then QuicManager::new and the call of send_transaction.
Select ==
    /\ mainPc = "select"
    /\ IF leaders = <<>>
       THEN /\ error_log' = "No current leader available"
            /\ mainPc' = "retry"
            /\ UNCHANGED <<connected, sendAttempt, fetches, sends, submissions>>
       ELSE IF Chosen(leaders).tpu_quic = None
       THEN /\ error_log' = "No QUIC address available"
            /\ mainPc' = "retry"
            /\ UNCHANGED <<connected, sendAttempt, fetches, sends, submissions>>
       ELSE /\ connected' = Chosen(leaders).tpu_quic
            /\ sendAttempt' = 0
            /\ fetches' = 0
            /\ sends' = 0
            /\ submissions' = submissions + 1
            /\ mainPc' = "send_loop"
            /\ UNCHANGED error_log
    /\ UNCHANGED <<attempts, blockhash, transaction, signature, polls, sleeps,
                   not_found, query_errors, wire, success_line, failure_line>>
    /\ UNCHANGED <<trackerVars, num_leaders, leader_offset, start_slot, end_slot, slot,
                   gl_leaders, leaders, lookups, retry, keysValid, chainHash>>

\* send_transaction: `for attempt in 0..max_attempts`; after the loop,
\* Err("Failed to send transaction via QUIC after multiple attempts").
SendLoop ==
    /\ mainPc = "send_loop"
    /\ IF sendAttempt < SEND_MAX_ATTEMPTS
       THEN /\ mainPc' = "send_blockhash"
            /\ UNCHANGED error_log
       ELSE /\ mainPc' = "retry"
            /\ error_log' = "Error sending transaction"
    /\ UNCHANGED <<attempts, connected, sendAttempt, blockhash, transaction, signature,
                   polls, sleeps, not_found, query_errors, fetches, sends, submissions, wire,
                   success_line, failure_line>>
    /\ AttemptUnchanged

\* rpc_client.get_latest_blockhash().await ... ?
SendGetBlockhash ==
    /\ mainPc = "send_blockhash"
    /\ fetches' = fetches + 1
    /\ \/ /\ blockhash' = <<chainHash>>
          /\ mainPc' = "send_create"
          /\ UNCHANGED error_log
       \/ /\ mainPc' = "retry"
          /\ error_log' = "Error sending transaction"
          /\ UNCHANGED blockhash
    /\ UNCHANGED <<attempts, connected, sendAttempt, transaction, signature, polls,
                   sleeps, not_found, query_errors, sends, submissions, wire, success_line,
                   failure_line>>
    /\ AttemptUnchanged

\* config.create_transaction(blockhash): setup_sender and setup_receiver
\* panic on keys that cannot be read.
SendCreateTransaction ==
    /\ mainPc = "send_create"
    /\ IF keysValid
       THEN /\ transaction' = <<CreateTransaction(blockhash[1])>>
            /\ mainPc' = "send_data"
       ELSE /\ mainPc' = "panicked"
            /\ UNCHANGED transaction
    /\ UNCHANGED <<attempts, connected, sendAttempt, blockhash, signature, polls, sleeps,
                   not_found, query_errors, fetches, sends, submissions, wire, error_log,
                   success_line, failure_line>>
    /\ AttemptUnchanged

\* Mutant of FirstSignature: a signature that is not the transaction's.
ForeignSignature(tx) == Sign(tx.recent_blockhash + 1)

\* transaction.signatures.first(), on a signed transaction.
FirstSignature(tx) == tx.signatures[1]

\* timeout(60 s, connection.send_data(..)) and the match on its result.
SendData ==
    /\ mainPc = "send_data"
    /\ wire' = Append(wire, transaction[1])
    /\ sends' = sends + 1
    /\ \E send_result \in {"ok", "error", "timeout"} :
          IF send_result = "ok"
          THEN IF Len(transaction[1].signatures) > 0
               THEN /\ signature' = <<FirstSignature(transaction[1])>>
                    /\ mainPc' = "confirm_meta"
                    /\ UNCHANGED <<sendAttempt, error_log>>
               ELSE /\ mainPc' = "retry"
                    /\ error_log' = "Error sending transaction"
                    /\ UNCHANGED <<sendAttempt, signature>>
          ELSE /\ sendAttempt' = sendAttempt + 1
               /\ mainPc' = "send_loop"
               /\ UNCHANGED <<signature, error_log>>
    /\ UNCHANGED <<attempts, connected, blockhash, transaction, polls, sleeps, not_found, query_errors,
                   fetches, submissions, success_line, failure_line>>
    /\ AttemptUnchanged

\* check_confirm_transaction: get_transaction, whose result is only logged.
ConfirmMeta ==
    /\ mainPc = "confirm_meta"
    /\ polls' = 0
    /\ sleeps' = 0
    /\ not_found' = 0
    /\ query_errors' = 0
    /\ mainPc' = "confirm_poll"
    /\ UNCHANGED <<attempts, connected, sendAttempt, blockhash, transaction, signature,
                   fetches, sends, submissions, wire, error_log, success_line,
                   failure_line>>
    /\ AttemptUnchanged

\* Mutant of AfterStatus: a failed status query counts as "not settled yet".
AfterStatusTolerant(status) ==
    CASE status = "confirmed" -> "confirmed"
      [] OTHER                -> "confirm_sleep"

\* What one answer of get_signature_statuses leads to: the query failed
\* (Err through `?`), no status, a status without confirmations, a status
\* with confirmations.
AfterStatus(status) ==
    CASE status = "query_error" -> "confirm_failed"
      [] status = "confirmed"   -> "confirmed"
      [] OTHER                  -> "confirm_sleep"

\* One turn of `for _ in 0..max_attempts`: the status query and the match;
\* after the loop, Err("Transaction failed to confirm").
ConfirmPoll ==
    /\ mainPc = "confirm_poll"
    /\ IF polls < CONFIRM_MAX_ATTEMPTS
       THEN /\ polls' = polls + 1
            /\ \E status \in {"query_error", "not_found", "unconfirmed", "confirmed"} :
                  /\ mainPc' = AfterStatus(status)
                  /\ not_found' = IF status = "not_found" THEN not_found + 1
                                                          ELSE not_found
                  /\ query_errors' = IF status = "query_error" THEN query_errors + 1
                                                               ELSE query_errors
       ELSE /\ mainPc' = "confirm_failed"
            /\ UNCHANGED <<polls, not_found, query_errors>>
    /\ UNCHANGED <<attempts, connected, sendAttempt, blockhash, transaction, signature,
                   sleeps, fetches, sends, submissions, wire, error_log, success_line,
                   failure_line>>
    /\ AttemptUnchanged

\* tokio::time::sleep(2 s) at the end of a turn.
ConfirmSleep ==
    /\ mainPc = "confirm_sleep"
    /\ sleeps' = sleeps + 1
    /\ mainPc' = "confirm_poll"
    /\ UNCHANGED <<attempts, connected, sendAttempt, blockhash, transaction, signature,
                   polls, not_found, query_errors, fetches, sends, submissions, wire, error_log,
                   success_line, failure_line>>
    /\ AttemptUnchanged

\* main, Err(e) of check_confirm_transaction: the error is logged.
ConfirmFailed ==
    /\ mainPc = "confirm_failed"
    /\ error_log' = "Error confirming transaction"
    /\ mainPc' = "retry"
    /\ UNCHANGED <<attempts, connected, sendAttempt, blockhash, transaction, signature,
                   polls, sleeps, not_found, query_errors, fetches, sends, submissions, wire,
                   success_line, failure_line>>
    /\ AttemptUnchanged

\* main, Ok(_) of check_confirm_transaction: the reference is logged, break.
Confirmed ==
    /\ mainPc = "confirmed"
    /\ success_line' = TRUE
    /\ mainPc' = "after_loop"
    /\ UNCHANGED <<attempts, connected, sendAttempt, blockhash, transaction, signature,
                   polls, sleeps, not_found, query_errors, fetches, sends, submissions, wire,
                   error_log, failure_line>>
    /\ AttemptUnchanged

\* Mutant of Incremented: an attempt counts twice.
IncrementedTwice(a) == a + 2

\* attempts += 1
Incremented(a) == a + 1

\* attempts += 1; sleep(1 s). The turn of the loop is over: its locals
\* (leaders, manager, signature) and those of the calls it made are gone.
Retry ==
    /\ mainPc = "retry"
    /\ attempts' = Incremented(attempts)
    /\ mainPc' = "while"
    /\ start_slot' = 0
    /\ end_slot' = 0
    /\ slot' = 0
    /\ gl_leaders' = <<>>
    /\ leaders' = <<>>
    /\ lookups' = 0
    /\ connected' = None
    /\ sendAttempt' = 0
    /\ blockhash' = Unset
    /\ transaction' = Unset
    /\ signature' = Unset
    /\ polls' = 0
    /\ sleeps' = 0
    /\ not_found' = 0
    /\ query_errors' = 0
    /\ fetches' = 0
    /\ sends' = 0
    /\ UNCHANGED <<trackerVars, num_leaders, leader_offset, retry, keysValid, chainHash,
                   submissions, wire, error_log, success_line, failure_line>>

\* `while attempts < config.retry` is false.
WhileExit ==
    /\ mainPc = "while"
    /\ ~WhileCondition(attempts, retry)
    /\ mainPc' = "after_loop"
    /\ UNCHANGED <<attempts, connected, sendAttempt, blockhash, transaction, signature,
                   polls, sleeps, not_found, query_errors, fetches, sends, submissions, wire,
                   error_log, success_line, failure_line>>
    /\ AttemptUnchanged

\* `if attempts >= config.retry { info!("Maximum number of attempts ...") }`,
\* then main returns.
AfterLoop ==
    /\ mainPc = "after_loop"
    /\ failure_line' = (attempts >= retry)
    /\ mainPc' = "exit"
    /\ UNCHANGED <<attempts, connected, sendAttempt, blockhash, transaction, signature,
                   polls, sleeps, not_found, query_errors, fetches, sends, submissions, wire,
                   error_log, success_line>>
    /\ AttemptUnchanged

\* The steps of main from the attempt loop on.
MainStep ==
    \/ WhileEnter
    \/ GetLeadersScan
    \/ GetLeadersReturn
    \/ Select
    \/ SendLoop
    \/ SendGetBlockhash
    \/ SendCreateTransaction
    \/ SendData
    \/ ConfirmMeta
    \/ ConfirmPoll
    \/ ConfirmSleep
    \/ ConfirmFailed
    \/ Confirmed
    \/ Retry
    \/ WhileExit
    \/ AfterLoop

PollStep(c) ==
    \/ PollLoad(c)
    \/ PollGetSlotLeaders(c)
    \/ PollGetClusterNodes(c)
    \/ PollInsert(c)
    \/ CleanLoad(c)
    \/ CleanScan(c)
    \/ CleanCollected(c)
    \/ CleanRemove(c)
    \/ PollReturnOk(c)

Next ==
    \/ ChainTick
    \/ DirChange
    \/ New
    \/ WsConnect
    \/ WsSubscribe
    \/ WsSlotUpdate
    \/ WsEnd
    \/ \E c \in Callers : PollStep(c)
    \/ LoopError
    \/ LoopSleep
    \/ StartupUnwrap

Spec == Init /\ [][Next]_vars

(***************************************************************************)
(* The leader window beside the running tracker: the startup is over, the  *)
(* listener and the refresh loop run, main makes one call of get_leaders.  *)
(* The cache starts with any content refreshes can have left: at a key,    *)
(* the contact some version of the directory gives the leader of that slot.*)
(***************************************************************************)
\* What one refresh that started at slot s under the directory version ver
\* leaves in an empty cache: one entry per listed leader the directory knows.
Refreshed(s, ver) ==
    LET nodes == NodeMap(ClusterNodes(ver))
        keys  == {InsertKey(s, i - 1) : i \in {j \in 1..Lookahead :
                                                 SlotLeaders(s)[j] \in DOMAIN nodes}}
    IN  [k \in keys |-> nodes[LeaderAt(k)]]

\* The cache before any refresh, and after one refresh from any slot.
RefreshedCaches == {EmptyMap} \cup {Refreshed(s, ver) : s \in Slots, ver \in 1..2}

WindowInit ==
    /\ chainSlot = MaxSlot
    /\ dirVer = 2
    /\ cur_slot \in 0..MaxSlot
    /\ cur_leaders \in RefreshedCaches
    /\ wsPc = "listen"
    /\ pollPc = [c \in Callers |-> IF c = "loop" THEN "start" ELSE "idle"]
    /\ next_slot = [c \in Callers |-> 0]
    /\ cluster_node_map = [c \in Callers |-> 0]
    /\ idx = [c \in Callers |-> 0]
    /\ clean_slot = [c \in Callers |-> 0]
    /\ scan_left = [c \in Callers |-> {}]
    /\ slots_to_remove = [c \in Callers |-> {}]
    /\ late_inserts = [c \in Callers |-> {}]
    /\ mainPc = "while"
    /\ num_leaders \in 0..MaxLeaders
    /\ leader_offset \in 0..MaxOffset
    /\ WindowIdle
    /\ retry = 1
    /\ keysValid = TRUE
    /\ OrchIdle

WindowNext ==
    \/ WsSlotUpdate
    \/ WsEnd
    \/ PollStep("loop")
    \/ LoopError
    \/ LoopSleep
    \/ WhileEnter
    \/ GetLeadersScan
    \/ GetLeadersReturn

SpecWindow == WindowInit /\ [][WindowNext]_vars

(***************************************************************************)
(* The attempt loop: the startup is over, the cache holds any content      *)
(* refreshes can have left, the listener moves the clock, the chain        *)
(* produces blockhashes, main runs its loop to the end.                    *)
(***************************************************************************)
\* The caches the attempt loop starts on: those of RefreshedCaches, and what
\* a refresh leaves that started one slot further (the listener may have
\* stored a lower slot since).
OrchCaches == RefreshedCaches \cup {Refreshed(MaxSlot + 1, ver) : ver \in 1..2}

OrchInit ==
    /\ chainSlot = MaxSlot
    /\ dirVer = 2
    /\ cur_slot \in 0..MaxSlot
    /\ cur_leaders \in OrchCaches
    /\ wsPc = "listen"
    /\ pollPc = [c \in Callers |-> "idle"]
    /\ next_slot = [c \in Callers |-> 0]
    /\ cluster_node_map = [c \in Callers |-> 0]
    /\ idx = [c \in Callers |-> 0]
    /\ clean_slot = [c \in Callers |-> 0]
    /\ scan_left = [c \in Callers |-> {}]
    /\ slots_to_remove = [c \in Callers |-> {}]
    /\ late_inserts = [c \in Callers |-> {}]
    /\ mainPc = "while"
    /\ num_leaders = 4
    /\ leader_offset = 0
    /\ WindowIdle
    /\ retry \in 0..MaxRetry
    /\ keysValid \in BOOLEAN
    /\ OrchIdle

\* No refresh runs here, so the clock is read at one place only, the load in
\* get_leaders, and the chain's blockhash at one place only, the fetch in
\* send_transaction: a store of the listener or a new blockhash anywhere else
\* commutes with main's steps, and is taken just before the read.
OrchNext ==
    \/ (mainPc = "while" /\ WsSlotUpdate)
    \/ (mainPc = "send_blockhash" /\ HashTick)
    \/ MainStep

SpecOrch == OrchInit /\ [][OrchNext]_vars

\* The runtime keeps polling main: a step of main that can be taken is taken.
SpecOrchFair == SpecOrch /\ WF_vars(MainStep)

(***************************************************************************)
(* get_leaders alone: one call on any cache content, clock value,          *)
(* num_leaders and leader_offset, nothing else running.                    *)
(***************************************************************************)
AllContacts == ClusterNodes(1) \cup ClusterNodes(2)

AnyCaches == UNION {[ks -> AllContacts] : ks \in SUBSET (0..ScanMaxKey)}

ScanInit ==
    /\ chainSlot = MaxSlot
    /\ dirVer = 2
    /\ cur_slot \in 0..MaxSlot
    /\ cur_leaders \in AnyCaches
    /\ wsPc = "ended"
    /\ pollPc = [c \in Callers |-> "idle"]
    /\ next_slot = [c \in Callers |-> 0]
    /\ cluster_node_map = [c \in Callers |-> 0]
    /\ idx = [c \in Callers |-> 0]
    /\ clean_slot = [c \in Callers |-> 0]
    /\ scan_left = [c \in Callers |-> {}]
    /\ slots_to_remove = [c \in Callers |-> {}]
    /\ late_inserts = [c \in Callers |-> {}]
    /\ mainPc = "while"
    /\ num_leaders \in 0..MaxLeaders
    /\ leader_offset \in 0..MaxOffset
    /\ WindowIdle
    /\ retry = 1
    /\ keysValid = TRUE
    /\ OrchIdle

ScanNext ==
    \/ WhileEnter
    \/ GetLeadersScan
    \/ GetLeadersReturn

SpecScan == ScanInit /\ [][ScanNext]_vars

(***************************************************************************)
(* get_leaders alone on a rotating schedule: every leader holds a term of  *)
(* 1 to NUM_LEADERS_PER_SLOT consecutive slots, consecutive terms are held *)
(* by different identities, the cache holds every slot get_leaders can     *)
(* scan, and the clock may stand in the middle of a term.                  *)
(***************************************************************************)
\* The identities of successive terms, repeated in a cycle.
RotationPatterns == {<<"A", "B">>, <<"A", "B", "C">>, <<"A", "B", "A", "C">>}

\* The leader of slot k when every term lasts len slots and slot 0 is the
\* slot number phase of its term.
RotationLeader(pattern, len, phase, k) ==
    pattern[(((k + phase) \div len) % Len(pattern)) + 1]

\* The cache a refresh under the first directory leaves for such a schedule.
RotationCache(pattern, len, phase) ==
    [k \in 0..(MaxSlot + MaxWindow * NUM_LEADERS_PER_SLOT) |->
        NodeMap(ClusterNodes(1))[RotationLeader(pattern, len, phase, k)]]

RotationInit ==
    /\ chainSlot = MaxSlot
    /\ dirVer = 1
    /\ cur_slot \in 0..MaxSlot
    /\ \E pattern \in RotationPatterns, len \in 1..NUM_LEADERS_PER_SLOT :
          \E phase \in 0..(len - 1) :
             cur_leaders = RotationCache(pattern, len, phase)
    /\ wsPc = "ended"
    /\ pollPc = [c \in Callers |-> "idle"]
    /\ next_slot = [c \in Callers |-> 0]
    /\ cluster_node_map = [c \in Callers |-> 0]
    /\ idx = [c \in Callers |-> 0]
    /\ clean_slot = [c \in Callers |-> 0]
    /\ scan_left = [c \in Callers |-> {}]
    /\ slots_to_remove = [c \in Callers |-> {}]
    /\ late_inserts = [c \in Callers |-> {}]
    /\ mainPc = "while"
    /\ num_leaders \in 1..MaxWindow
    /\ leader_offset = 0
    /\ WindowIdle
    /\ retry = 1
    /\ keysValid = TRUE
    /\ OrchIdle

SpecRotation == RotationInit /\ [][ScanNext]_vars

(***************************************************************************)
(* The claims about the tracker (specification Spec).                      *)
(***************************************************************************)

\* C1: the slot clock never decreases, whatever slot updates the feed
\* delivers and in whatever order (an update lower than the current value
\* leaves the clock unchanged).
C1_ClockNeverDecreases == [][cur_slot' >= cur_slot]_vars

\* C2, as claimed: at the step a refresh completes successfully, the cache
\* holds no entry whose slot is lower than the current value of the slot
\* clock, under every interleaving.
C2_NoStaleEntryAtCompletion ==
    [][\A c \in Callers :
          (pollPc[c] = "clean_remove" /\ pollPc'[c] = "ok")
              => \A k \in DOMAIN cur_leaders' : k >= cur_slot']_vars

\* C2, amended: when a refresh has completed successfully, every entry of
\* the cache whose slot is lower than the clock value the purge of that
\* refresh loaded was inserted by the other caller after that purge began.
C2_PurgedBelowLoadedClock ==
    \A c \in Callers :
        pollPc[c] = "ok"
            => \A k \in DOMAIN cur_leaders :
                  k < clean_slot[c] => k \in late_inserts[c]

\* C2, witness: a refresh that started from a slot below the clock value its
\* purge loaded has completed, nothing was inserted behind its back, and
\* what is left of the cache is not below that clock value.
C2_Witness ==
    \E c \in Callers :
        /\ pollPc[c] = "ok"
        /\ next_slot[c] < clean_slot[c]
        /\ late_inserts[c] = {}
        /\ DOMAIN cur_leaders # {}
        /\ \A k \in DOMAIN cur_leaders : k >= clean_slot[c]

\* C8: a failing refresh never crashes the process, the startup call of
\* main included.
C8_RefreshFailureContained == mainPc # "panicked"

\* C9: once the feed has failed or ended, a refresh starts from its own
\* authoritative read of the current slot.
C9_RefreshReadsAuthoritativeSlot ==
    [][\A c \in Callers :
          (wsPc = "ended" /\ pollPc[c] = "start" /\ pollPc'[c] = "get_slot_leaders")
              => next_slot'[c] = chainSlot]_vars

(***************************************************************************)
(* The claims about the leader window beside the running tracker           *)
(* (specification SpecWindow).                                             *)
(***************************************************************************)

\* C3: the list get_leaders returns holds no identity twice, every contact
\* in it was found at a slot >= start_slot (the clock value the call loaded
\* plus the offset), and the contacts are in non-decreasing order of the
\* slot their identity was first found at; also when the call interleaves
\* with a refresh or a clock update.
C3_WindowDistinct ==
    mainPc = "select"
        => /\ Len(leaders) = Len(gl_leaders)
           /\ \A i, j \in 1..Len(leaders) :
                 i # j => leaders[i].pubkey # leaders[j].pubkey
           /\ \A i \in 1..Len(leaders) :
                 /\ leaders[i] = gl_leaders[i].value
                 /\ gl_leaders[i].at >= start_slot
                 /\ gl_leaders[i].first >= start_slot
           /\ \A i, j \in 1..Len(leaders) :
                 i < j => gl_leaders[i].first <= gl_leaders[j].first

\* C3, witness: a returned window of two contacts, one of them an identity
\* met at two slots, one of them first found at a slot the purge of the refresh
\* loop has removed since.
C3_Witness ==
    /\ mainPc = "select"
    /\ Len(leaders) = 2
    /\ \E i \in 1..2 : gl_leaders[i].first < gl_leaders[i].at
    /\ \E i \in 1..2 : gl_leaders[i].first \notin DOMAIN cur_leaders

(***************************************************************************)
(* The claims about get_leaders alone (specification SpecScan).            *)
(***************************************************************************)

\* The identities the cache holds in the scanned range.
IdentitiesInRange ==
    {cur_leaders[k].pubkey : k \in DOMAIN cur_leaders \cap start_slot..(end_slot - 1)}

\* C4: get_leaders never waits for missing data (while it runs it can always
\* take its next step, and it makes at most num_leaders * 4 lookups), and
\* when the cache holds fewer than num_leaders distinct identities in the
\* scanned range it returns fewer than num_leaders contacts: exactly one
\* for each identity of the range.
C4_WindowDegrades ==
    /\ mainPc = "get_leaders"
          => /\ lookups <= num_leaders * 4
             /\ ENABLED (GetLeadersScan \/ GetLeadersReturn)
    /\ (mainPc = "select" /\ Cardinality(IdentitiesInRange) < num_leaders)
          => /\ Len(leaders) < num_leaders
             /\ Len(leaders) = Cardinality(IdentitiesInRange)
             /\ {leaders[i].pubkey : i \in 1..Len(leaders)} = IdentitiesInRange

\* C4, witness: two leaders were asked for, the range has a gap at its first
\* slot and holds one identity, and get_leaders has returned one contact.
C4_Witness ==
    /\ mainPc = "select"
    /\ num_leaders = 2
    /\ start_slot \notin DOMAIN cur_leaders
    /\ Cardinality(IdentitiesInRange) = 1
    /\ Len(leaders) = 1

\* The first n distinct-by-identity contacts met from slot s on, below end:
\* slots without an entry and identities already met are skipped.
RECURSIVE FirstDistinct(_, _, _, _, _)
FirstDistinct(cache, s, end, n, acc) ==
    IF s >= end \/ Len(acc) >= n
    THEN acc
    ELSE IF s \in DOMAIN cache /\ \A i \in 1..Len(acc) : acc[i].pubkey # cache[s].pubkey
    THEN FirstDistinct(cache, s + 1, end, n, Append(acc, cache[s]))
    ELSE FirstDistinct(cache, s + 1, end, n, acc)

\* C6: get_leaders returns the first num_leaders distinct-by-identity
\* contacts met when scanning the slots from start_slot on in increasing
\* order, skipping slots without an entry and repeated identities.
C6_WindowContent ==
    mainPc = "select"
        => leaders = FirstDistinct(cur_leaders, start_slot, end_slot, num_leaders, <<>>)

(***************************************************************************)
(* The claims about the attempt loop (specifications SpecOrch and          *)
(* SpecOrchFair).                                                          *)
(***************************************************************************)

\* main has returned after a confirmed transaction.
Done == mainPc = "exit" /\ success_line

\* main has returned after the attempt budget was exhausted.
Failed == mainPc = "exit" /\ failure_line /\ attempts >= retry /\ ~success_line

\* C5: the attempt loop makes at most config.retry attempts, hence at most
\* config.retry calls of send_transaction, and main always reaches Done or
\* Failed, unless a call of send_transaction does not return (it panics).
C5_RetryTermination ==
    /\ [](attempts <= retry /\ submissions <= retry)
    /\ <>(Done \/ Failed \/ mainPc = "panicked")

\* C5, witness: every attempt of a budget of two has called
\* send_transaction, none was confirmed, and main has ended Failed.
C5_Witness ==
    /\ Failed
    /\ retry = 2
    /\ attempts = 2
    /\ submissions = 2

\* C7: check_confirm_transaction makes at most 10 status polls; every poll
\* that shows no confirmation is followed by one sleep before the next
\* poll; success is returned at the first poll that shows confirmations,
\* with no poll after it; the failure after the loop comes after 10 polls
\* (and a failing status query returns at once).
C7_ConfirmationPolling ==
    /\ polls <= 10
    /\ mainPc = "confirm_poll" => sleeps = polls
    /\ mainPc = "confirm_sleep" => sleeps = polls - 1
    /\ mainPc = "confirmed" => (polls >= 1 /\ sleeps = polls - 1)
    /\ Done => (polls >= 1 /\ sleeps = polls - 1)
    /\ mainPc = "confirm_failed"
          => \/ polls = 10 /\ sleeps = 10
             \/ polls >= 1 /\ sleeps = polls - 1

\* C7, witness: nine polls found no status, the tenth showed confirmations:
\* success after exactly 10 polls and 9 sleeps.
C7_Witness ==
    /\ mainPc = "confirmed"
    /\ polls = 10
    /\ not_found = 9
    /\ sleeps = 9

\* C10: one call of send_transaction fetches at most one blockhash and
\* hands at most one transaction to the transport; it never starts a second
\* round after a send; when it returns Ok, the signature is the first
\* signature of the transaction it has just sent, built on the blockhash it
\* has just fetched.
C10_NoRetryInsideSubmit ==
    /\ fetches <= 1
    /\ sends <= 1
    /\ mainPc \in {"send_loop", "send_blockhash"} /\ sendAttempt < 1 => sends = 0
    /\ mainPc = "send_blockhash" => (fetches = 0 /\ sends = 0)
    /\ mainPc = "confirm_meta"
          => /\ fetches = 1
             /\ sends = 1
             /\ wire[Len(wire)] = transaction[1]
             /\ transaction[1].recent_blockhash = blockhash[1]
             /\ signature = <<wire[Len(wire)].signatures[1]>>

\* C10, witness: the one send of the call failed (error or timeout) and the
\* call has returned its error to main.
C10_Witness ==
    /\ mainPc = "retry"
    /\ error_log = "Error sending transaction"
    /\ fetches = 1
    /\ sends = 1
    /\ sendAttempt = 1

\* C11: every transaction handed to the transport embeds the blockhash that
\* the same call of send_transaction has fetched (one fetch, made in this
\* attempt, giving the source's latest blockhash at that moment); an
\* attempt starts with no blockhash, transaction or signature left from an
\* earlier one, so what it sends and polls is built in that attempt.
C11_FreshHashPerAttempt ==
    [][/\ (mainPc = "while" /\ mainPc' = "get_leaders")
            => (blockhash = Unset /\ transaction = Unset /\ signature = Unset)
       /\ (mainPc = "send_blockhash" /\ mainPc' = "send_create")
            => (blockhash = Unset /\ blockhash' = <<chainHash>> /\ transaction = Unset)
       /\ wire' # wire
            => /\ fetches = 1
               /\ blockhash # Unset
               /\ transaction # Unset
               /\ transaction[1].recent_blockhash = blockhash[1]
               /\ wire' = Append(wire, transaction[1])
       /\ (mainPc = "confirm_poll" /\ Len(wire) > 0)
            => signature = <<wire[Len(wire)].signatures[1]>>]_vars

\* C11, witness: the first attempt ended on a confirmation failure, the
\* chain produced a new blockhash, and the second attempt has sent a
\* transaction on the new blockhash.
C11_Witness ==
    /\ attempts = 1
    /\ Len(wire) = 2
    /\ mainPc = "confirm_meta"
    /\ error_log = "Error confirming transaction"
    /\ wire[1].recent_blockhash = 0
    /\ wire[2].recent_blockhash = 1
    /\ chainHash = 1

C14_UnreachableLeader ==
    [][/\ (mainPc = "select" /\ (leaders = <<>> \/ leaders[Len(leaders)].tpu_quic = None))
            => /\ mainPc' = "retry"
               /\ connected' = None
               /\ fetches' = 0 /\ sends' = 0
               /\ blockhash' = Unset
               /\ wire' = wire
               /\ submissions' = submissions
               /\ attempts' = attempts
               /\ error_log' = IF leaders = <<>> THEN "No current leader available"
                                                ELSE "No QUIC address available"
       /\ mainPc = "retry"
            => /\ attempts' = attempts + 1
               /\ mainPc' = "while"
               /\ leaders' = <<>>
               /\ wire' = wire
       /\ (mainPc = "while" /\ mainPc' # "while")
            => IF attempts < retry
               THEN mainPc' = "get_leaders" /\ start_slot' = cur_slot + leader_offset
               ELSE mainPc' = "after_loop"]_vars

\* C14, witness: the first attempt was given up and counted; the second
\* attempt has computed its window anew and met a last leader without
\* address; nothing was ever connected or sent.
C14_Witness ==
    /\ attempts = 1
    /\ mainPc = "retry"
    /\ error_log = "No QUIC address available"
    /\ Len(leaders) = 2
    /\ leaders[2].tpu_quic = None
    /\ start_slot = 1
    /\ lookups > 0
    /\ connected = None
    /\ submissions = 0
    /\ wire = <<>>

\* The positions of main inside send_transaction.
InSend == mainPc \in {"send_loop", "send_blockhash", "send_create", "send_data"}

\* The positions of main inside check_confirm_transaction and its match.
InConfirm ==
    mainPc \in {"confirm_meta", "confirm_poll", "confirm_sleep", "confirmed",
                "confirm_failed"}

\* The positions of main from a confirmed transaction on.
AfterSuccess ==
    \/ mainPc = "confirmed"
    \/ mainPc \in {"after_loop", "exit"} /\ success_line

\* C15: check_confirm_transaction runs only after the send_transaction of
\* the same attempt returned Ok, on the signature of the transaction that
\* call sent; an error of either call ends the attempt, whose end adds
\* exactly one to the attempt counter (nothing else changes it); after a
\* confirmation main makes no further window, submit or confirm.
C15_OrchestratorOrdering ==
    [][/\ InConfirm
            => /\ sends = 1
               /\ signature = <<wire[Len(wire)].signatures[1]>>
               /\ transaction = <<wire[Len(wire)]>>
       /\ (InConfirm' /\ ~InConfirm) => (mainPc = "send_data" /\ mainPc' = "confirm_meta")
       /\ (InSend /\ ~InSend' /\ mainPc' \notin {"confirm_meta", "panicked"})
            => (mainPc' = "retry" /\ attempts' = attempts)
       /\ mainPc = "confirm_failed" => (mainPc' = "retry" /\ attempts' = attempts)
       /\ attempts' # attempts => (mainPc = "retry" /\ attempts' = attempts + 1)
       /\ mainPc = "retry" => mainPc' = "while"
       /\ AfterSuccess
            => /\ AfterSuccess'
               /\ wire' = wire
               /\ submissions' = submissions
               /\ polls' = polls
               /\ lookups' = lookups
               /\ attempts' = attempts]_vars

\* C15, witness: the first attempt failed in send_transaction and was
\* counted once; the second sent its transaction, was confirmed, and main
\* has ended.
C15_Witness ==
    /\ mainPc = "exit"
    /\ success_line
    /\ attempts = 1
    /\ submissions = 2
    /\ Len(wire) = 2
    /\ error_log = "Error sending transaction"
    /\ signature = <<wire[2].signatures[1]>>

\* main is over: it has returned, or a panic has ended it.
Ended == mainPc \in {"exit", "panicked"}

\* C16: every run of the attempt loop ends with exactly one of the two
\* final lines: the success reference if and only if a confirmation
\* succeeded, the failure notice if and only if the attempt budget was
\* exhausted without one.
C16_SingleFinalOutcome ==
    Ended => /\ success_line # failure_line
             /\ success_line <=> signature # Unset
             /\ failure_line <=> (attempts >= retry /\ signature = Unset)

\* The same for the runs in which main returns.
OutcomeWhenReturned ==
    mainPc = "exit" => /\ success_line # failure_line
                       /\ success_line <=> (signature # Unset /\ polls >= 1)
                       /\ failure_line <=> (attempts >= retry /\ signature = Unset)

\* C17: with configured keys that cannot be read, nothing goes to the
\* network: no blockhash fetch, no connection, no send.
C17_NoNetworkOnBadKeys ==
    ~keysValid => (fetches = 0 /\ connected = None /\ wire = <<>>)

(***************************************************************************)
(* More claims about the tracker (specification Spec).                     *)
(***************************************************************************)

\* The contact the directory version ver lists for the identity pk, if any.
Listed(pk, ver) == {n \in ClusterNodes(ver) : n.pubkey = pk}

\* C18: every entry of the cache, at any key t, is a directory contact of
\* the identity the source reports for slot t; and a turn of the insert
\* loop of a refresh that loaded the clock value s writes, at index i, the
\* key s + i with the contact its directory lists for the leader of slot
\* s + i, or nothing if the directory does not list that leader, whatever
\* the clock has become.
C18_RefreshJoin ==
    /\ [](\A t \in DOMAIN cur_leaders :
             /\ cur_leaders[t].pubkey = LeaderAt(t)
             /\ cur_leaders[t] \in Listed(LeaderAt(t), 1) \cup Listed(LeaderAt(t), 2))
    /\ [][\A c \in Callers :
             idx'[c] = idx[c] + 1
                => LET t  == next_slot[c] + idx[c]
                       to == Listed(LeaderAt(t), cluster_node_map[c])
                   IN  IF to = {}
                       THEN cur_leaders' = cur_leaders
                       ELSE /\ DOMAIN cur_leaders' = DOMAIN cur_leaders \cup {t}
                            /\ cur_leaders'[t] \in to
                            /\ \A k \in DOMAIN cur_leaders \ {t} :
                                  cur_leaders'[k] = cur_leaders[k]]_vars

\* C18, witness: a refresh that loaded the clock value 1 has made all its
\* inserts under the second directory, which does not list the leader of
\* slot 2: slot 1 is in the cache, slot 2 is not, and the clock has gone to
\* 0 in the meantime.
C18_Witness ==
    \E c \in Callers :
        /\ pollPc[c] = "insert"
        /\ idx[c] = Lookahead
        /\ cluster_node_map[c] = 2
        /\ next_slot[c] = 1
        /\ cur_slot = 0
        /\ 1 \in DOMAIN cur_leaders
        /\ cur_leaders[1] \in Listed(LeaderAt(1), 2)
        /\ 2 \notin DOMAIN cur_leaders

(***************************************************************************)
(* The claim about get_leaders on a rotating schedule (specification       *)
(* SpecRotation).                                                          *)
(***************************************************************************)

\* The cache holds an entry for every slot of the scanned range.
FullRange == \A k \in start_slot..(end_slot - 1) : k \in DOMAIN cur_leaders

\* No identity holds more than NUM_LEADERS_PER_SLOT consecutive slots.
NormalRotation ==
    \A k \in DOMAIN cur_leaders :
        (k..(k + NUM_LEADERS_PER_SLOT)) \subseteq DOMAIN cur_leaders
            => \E j \in k..(k + NUM_LEADERS_PER_SLOT) :
                  cur_leaders[j].pubkey # cur_leaders[k].pubkey

\* C19: on a cache that holds every slot of the scanned range, with terms
\* of at most 4 consecutive slots, get_leaders returns exactly num_leaders
\* contacts after at most num_leaders * 4 lookups, wherever in a term the
\* scan starts.
C19_ScanBoundSufficient ==
    (mainPc = "select" /\ FullRange /\ NormalRotation)
        => /\ Len(leaders) = num_leaders
           /\ lookups <= num_leaders * NUM_LEADERS_PER_SLOT

\* C20: a call of poll_slot_leaders_once returns Err only from one of its
\* two queries, and reaches its inserts only after both have succeeded;
\* none of its steps up to there, nor the handling of the Err by its
\* caller, changes the cache or the clock: a failing refresh inserts
\* nothing and purges nothing.
C20_FailedRefreshFrame ==
    [][\A c \in Callers :
          /\ (pollPc'[c] = "err" /\ pollPc[c] # "err")
                => pollPc[c] \in {"get_slot_leaders", "get_cluster_nodes"}
          /\ (pollPc'[c] = "insert" /\ pollPc[c] # "insert")
                => pollPc[c] = "get_cluster_nodes"
          /\ (pollPc[c] \in {"start", "get_slot_leaders", "get_cluster_nodes", "err"}
                 /\ pollPc'[c] # pollPc[c])
                => (cur_leaders' = cur_leaders /\ cur_slot' = cur_slot)]_vars

\* C20, witness: a refresh has failed while the cache holds an entry below
\* the clock, and the entry is still there.
C20_Witness ==
    \E c \in Callers :
        /\ pollPc[c] = "err"
        /\ \E k \in DOMAIN cur_leaders : k < cur_slot

(***************************************************************************)
(* One more claim about the attempt loop (specification SpecOrch).         *)
(***************************************************************************)

\* C21: a status query that fails makes check_confirm_transaction return
\* its error at once, from the poll that failed, with no sleep and no poll
\* after it, whatever number of polls is left; main logs the confirmation
\* error, the end of the attempt adds exactly one to the attempt counter
\* and leaves no transaction or signature, and what is sent next is a
\* transaction built by the next attempt.
C21_StatusQueryFailure ==
    /\ [](/\ query_errors <= 1
          /\ query_errors = 1
                => /\ mainPc \in {"confirm_failed", "retry"}
                   /\ polls >= 1
                   /\ sleeps = polls - 1
                   /\ mainPc = "retry" => error_log = "Error confirming transaction")
    /\ [][/\ query_errors' > query_errors
                => (mainPc' = "confirm_failed" /\ polls' = polls + 1 /\ sleeps' = sleeps)
          /\ (mainPc = "confirm_failed" /\ query_errors = 1)
                => /\ mainPc' = "retry"
                   /\ polls' = polls
                   /\ attempts' = attempts
          /\ (mainPc = "retry" /\ query_errors = 1)
                => /\ mainPc' = "while"
                   /\ attempts' = attempts + 1
                   /\ transaction' = Unset
                   /\ signature' = Unset
                   /\ blockhash' = Unset
          /\ wire' # wire
                => /\ fetches = 1
                   /\ transaction # Unset
                   /\ wire' = Append(wire, transaction[1])]_vars

\* C21, witness: the first status query of a confirmation failed and the
\* call has returned with nine polls unused.
C21_Witness ==
    /\ mainPc = "confirm_failed"
    /\ query_errors = 1
    /\ polls = 1
    /\ sleeps = 0
    /\ Len(wire) = 1

=============================================================================
